---- MODULE Spec2Model ----
(***************************************************************************)
(* Model of the query view of the repository (src/unnamed/part_002, the    *)
(* current QueryView component, and src/unnamed/part_001, its API client): *)
(* the draft state of the query form, the descriptor (queryBody) computed  *)
(* from it at every render, the React commit cycle (render, then passive   *)
(* effects), the query observer that keys the cache by the descriptor, the *)
(* debounced Run Query timer, the network, and the streaming export.       *)
(*                                                                         *)
(* JavaScript values: `undefined` is the string Undefined where the value  *)
(* is a name (table, column) and the record None where it is a structure;  *)
(* the text typed into a filter is a sequence of one-character strings;    *)
(* bytes of an export stream are integers.                                 *)
(***************************************************************************)
EXTENDS Integers, Sequences, FiniteSets, TLC

\* ------------------------------------------------------------------ bounds

\* Requests the model lets the query view issue in one behaviour.
MaxReqs == 4
\* Pages the Next button may advance.
MaxPage == 2
\* The debounce delay (300 ms) counted in clock ticks.
DebounceTicks == 2
\* Chunks the server sends on one export stream.
MaxChunks == 3
\* Clock ticks that pass.
MaxClock == 3
\* Filter rows of the form.
MaxRows == 1
\* Filter rows compiled together.
MaxCompiled == 3

\* ------------------------------------------------------------- JS values

Undefined == "undefined"
None == [present |-> FALSE]
Some(v) == [present |-> TRUE, v |-> v]
UndefinedText == <<Undefined>>

\* A test that takes the empty string for a value.
Defined(s) == s # Undefined

Truthy(s) == s # Undefined /\ s # ""

WS == {" "}
Digits == {"0", "1", "2", "3", "4", "5", "6", "7", "8", "9"}

DigitVal(c) ==
    CASE c = "0" -> 0 [] c = "1" -> 1 [] c = "2" -> 2 [] c = "3" -> 3
      [] c = "4" -> 4 [] c = "5" -> 5 [] c = "6" -> 6 [] c = "7" -> 7
      [] c = "8" -> 8 [] c = "9" -> 9

\* String.prototype.trim on the model's alphabet (its only white space is " ").
RECURSIVE TrimLeft(_)
TrimLeft(s) ==
    IF s # <<>> /\ Head(s) \in WS THEN TrimLeft(Tail(s)) ELSE s

RECURSIVE TrimRight(_)
TrimRight(s) ==
    IF s # <<>> /\ s[Len(s)] \in WS THEN TrimRight(SubSeq(s, 1, Len(s) - 1)) ELSE s

\* No trimming.
Untrimmed(s) == s

Trim(s) == TrimRight(TrimLeft(s))

\* String.prototype.split(sep) for a one-character separator: "" splits to [""].
RECURSIVE Split(_, _)
Split(s, sep) ==
    IF \E i \in 1..Len(s) : s[i] = sep
    THEN LET i == CHOOSE k \in 1..Len(s) :
                      s[k] = sep /\ \A j \in 1..(k - 1) : s[j] # sep
         IN <<SubSeq(s, 1, i - 1)>> \o Split(SubSeq(s, i + 1, Len(s)), sep)
    ELSE <<s>>

RECURSIVE DecimalValue(_)
DecimalValue(s) ==
    IF s = <<>> THEN 0
    ELSE 10 * DecimalValue(SubSeq(s, 1, Len(s) - 1)) + DigitVal(s[Len(s)])

AllDigits(s) == \A i \in 1..Len(s) : s[i] \in Digits

\* Number(trimmed) is not NaN. Exact for text over digits, letters other than
\* e, E, b, o, x, I, the comma and the blank: there the numeric literals are the
\* empty string (0) and the strings of decimal digits.
IsNumeric(s) == AllDigits(s)

NumberOf(s) == DecimalValue(s)

\* ------------------------------------------------------- filter compiler

OPS == <<"eq", "neq", "lt", "lte", "gt", "gte", "like", "in", "between",
         "in_range", "is_null", "is_not_null">>
\* No operator is a no-value operator.
NoOps == {}

NO_VALUE_OPS == {"is_null", "is_not_null"}
ARRAY_VALUE_OPS == {"in", "in_range"}

JSBool(b) == [type |-> "boolean", bool |-> b, num |-> 0, text |-> <<>>]
JSNum(n) == [type |-> "number", bool |-> FALSE, num |-> n, text |-> <<>>]
JSStr(s) == [type |-> "string", bool |-> FALSE, num |-> 0, text |-> s]

coerceType(v) ==
    LET trimmed == Trim(v) IN
    IF trimmed = <<"t", "r", "u", "e">> THEN JSBool(TRUE)
    ELSE IF trimmed = <<"f", "a", "l", "s", "e">> THEN JSBool(FALSE)
    ELSE IF IsNumeric(trimmed) THEN JSNum(NumberOf(trimmed))
    ELSE JSStr(trimmed)

MapSeq(s, F(_)) == [i \in 1..Len(s) |-> F(s[i])]

\* A filter that keeps the empty parts.
AnyPart(s) == TRUE

NonEmpty(s) == s # <<>>

\* The callback of filters.map: one row to None (null) or Some(clause).
CompileRow(f) ==
    IF ~Truthy(f.column) THEN None
    ELSE IF f.op \in NO_VALUE_OPS THEN Some([column |-> f.column, op |-> f.op])
    ELSE
      LET raw == IF f.value = UndefinedText THEN <<>> ELSE f.value IN
      IF f.op = "between" THEN
        LET parts == SelectSeq(MapSeq(Split(raw, ","), Trim), NonEmpty) IN
        IF Len(parts) # 2 THEN None
        ELSE Some([column |-> f.column, op |-> f.op,
                   value |-> MapSeq(parts, coerceType)])
      ELSE IF f.op \in ARRAY_VALUE_OPS THEN
        LET arr == MapSeq(SelectSeq(MapSeq(Split(raw, ","), Trim), NonEmpty),
                          coerceType) IN
        IF Len(arr) = 0 THEN None
        ELSE Some([column |-> f.column, op |-> f.op, value |-> arr])
      ELSE IF raw = <<>> THEN None
      ELSE Some([column |-> f.column, op |-> f.op, value |-> coerceType(raw)])

IsPresent(o) == o.present
Unwrap(o) == o.v

\* A compiler that gives up on all rows when one of them is dropped.
CompileFiltersAborting(rows) ==
    LET processed == MapSeq(rows, CompileRow) IN
    IF \E i \in 1..Len(processed) : ~processed[i].present THEN <<>>
    ELSE MapSeq(processed, Unwrap)

CompileFilters(rows) ==
    MapSeq(SelectSeq(MapSeq(rows, CompileRow), IsPresent), Unwrap)

\* A descriptor that always carries order_by and fields.
ComputeQueryBodyWithAll(table, rows, lop, ob, lim, off, flds) ==
    IF ~Truthy(table) THEN None
    ELSE Some([filters |-> CompileFilters(rows),
               logical_operator |-> lop,
               order_by |-> Some(ob),
               limit |-> lim,
               offset |-> off,
               fields |-> Some(flds)])

\* The useMemo callback: the descriptor of the draft state, None when no table
\* is selected. A key whose value is undefined is absent from the JSON body and
\* from the query key's hash: order_by and fields are None then.
ComputeQueryBody(table, rows, lop, ob, lim, off, flds) ==
    IF ~Truthy(table) THEN None
    ELSE Some([filters |-> CompileFilters(rows),
               logical_operator |-> lop,
               order_by |-> IF Truthy(ob.column) THEN Some(ob) ELSE None,
               limit |-> lim,
               offset |-> off,
               fields |-> IF Len(flds) # 0 THEN Some(flds) ELSE None])

\* ------------------------------------------------------------------ state

Tables == {"orders", "users"}
Columns == {"status", "id"}
ValueTexts == {<<"o", "k">>}

\* The store's initial apiBaseUrl, "https://your-backend.com".
DefaultBaseUrl ==
    <<"h", "t", "t", "p", "s", ":", "/", "/", "y", "o", "u", "r", "-",
      "b", "a", "c", "k", "e", "n", "d", ".", "c", "o", "m">>

\* Texts typed into the settings dialog's URL input, and API keys.
ApiTest == <<"h", "t", "t", "p", "s", ":", "/", "/", "a", "p", "i", ".", "t">>
UrlTexts == {ApiTest, ApiTest \o <<"/">>, <<" ">> \o ApiTest \o <<"/", " ">>}
ApiKeys == {"k"}
\* The timeouts window.setTimeout has pending, as the ticks each has left, in
\* the order they were armed. NoTimer: none is pending.
NoTimer == <<>>

\* A press that leaves the pending timeout alone.
KeepTimeout(pending) == pending

\* if (ref.current) window.clearTimeout(ref.current): ref.current names the
\* timeout armed last; clearing it when it has fired does nothing.
ClearTimeout(pending) ==
    IF pending = <<>> THEN pending ELSE SubSeq(pending, 1, Len(pending) - 1)

VARIABLES
    selectedTable,  \* Index's useState, the prop of QueryView
    fields,         \* useState: projected columns
    filters,        \* useState: filter rows
    logical,        \* useState: "AND" | "OR"
    orderBy,        \* useState: [column, direction]
    limit,          \* useState
    offset,         \* useState
    queryBody,      \* the descriptor computed by the last render (useMemo)
    resetDeps,      \* the selectedTable the reset effect last ran for
    pc,             \* "idle", or "effects": a render is committed, its passive
                    \* effects are still to run
    queries,        \* the query cache: key -> state of that query
    obsKey,         \* the key the query observer is subscribed to
    lastDefined,    \* the observer's last current query that had data
    visible,        \* result.data as last rendered: 0 is undefined, n is the
                    \* payload of the response to request n
    inflight,       \* requests sent to the query endpoint and not yet answered
    nextId,         \* the number of the next request
    timer,          \* the pending debounce timeouts: the ticks each has left
    toasts,         \* notifications raised: [job, title, lines]
    exports,        \* the running and finished onExport invocations
    now,            \* Date.now(), in clock ticks
    grid,           \* DataGrid: its props columns and rows, and the widths
                    \* its useColumnWidths memo holds
    sinceChange,    \* history: ticks since the last descriptor change
    burstChanges,   \* history: descriptor changes of the current burst
    burstReqs,      \* history: requests issued since the burst began
    apiBaseUrl,     \* useConfigStore: the backend's base URL
    apiKey,         \* useConfigStore: the API key
    compiled        \* the filters.map callback: the row it is called with
                    \* and, once it returned, what it returned

draftVars == <<fields, filters, logical, orderBy, limit, offset>>
queryVars == <<queries, obsKey, lastDefined, visible, inflight, nextId>>
histVars == <<sinceChange, burstChanges, burstReqs>>
configVars == <<apiBaseUrl, apiKey>>
vars == <<selectedTable, draftVars, queryBody, resetDeps, pc, queryVars, timer,
          toasts, exports, now, grid, histVars, configVars, compiled>>

\* The filters.map callback has not been called.
NoCall == [pending |-> FALSE, done |-> FALSE]

\* DataGrid before any result: no column, no row.
EmptyGrid == [columns |-> <<>>, rows |-> <<>>, widths |-> <<>>]

\* ---------------------------------------------------------- query observer

\* queryKey: ["query", apiBaseUrl, apiKey, selectedTable, queryBody].
QueryKey(url, key, table, body) ==
    [url |-> url, apiKey |-> key, table |-> table, body |-> body]

\* A query the cache has just built: no data, nothing fetching.
NewQuery == [data |-> 0, status |-> "pending", fetchStatus |-> "idle", active |-> 0]

\* QueryCache.build: the query of a key, created when the cache has none.
Build(q, k) == IF k \in DOMAIN q THEN q ELSE q @@ (k :> NewQuery)

\* useQuery's `enabled` option.
Enabled(k) == Truthy(k.table) /\ k.body.present

\* Query's reducer on a "fetch" action, for request id.
StartFetch(st, id) ==
    [st EXCEPT !.fetchStatus = "fetching", !.active = id,
               !.status = IF st.data = 0 THEN "pending" ELSE @]

\* placeholderData: (prev) => prev, applied to the data of the last current
\* query that had data.
PlaceholderData(q, lastDef) == IF lastDef.present THEN q[lastDef.v].data ELSE 0

\* QueryObserver.createResult, the data of the result: the query's own data,
\* else the placeholder while the query is pending (willFetch: the optimistic
\* result of a render whose effect is about to start the fetch).
CreateResult(q, k, willFetch, lastDef) ==
    LET st == q[k]
        status == IF willFetch /\ st.data = 0 THEN "pending" ELSE st.status
    IN IF st.data # 0 THEN st.data
       ELSE IF status = "pending" THEN PlaceholderData(q, lastDef)
       ELSE 0

\* History of the descriptor changes: a change that follows a quiet period of
\* the debounce delay starts a new burst.
NoteChange(changed) ==
    IF ~changed THEN UNCHANGED histVars
    ELSE /\ sinceChange' = 0
         /\ burstChanges' = IF sinceChange >= DebounceTicks THEN 1
                            ELSE IF burstChanges < 2 THEN burstChanges + 1 ELSE 2
         /\ burstReqs' = IF sinceChange >= DebounceTicks THEN 0 ELSE burstReqs

\* History of the effects of one commit: the request the observer issues,
\* then the descriptor change of the render that follows the reset effect.
NoteEffects(issued, changed) ==
    LET reqs == IF issued /\ burstReqs < 2 THEN burstReqs + 1 ELSE burstReqs
        quiet == sinceChange >= DebounceTicks
    IN IF ~changed
       THEN /\ burstReqs' = reqs
            /\ UNCHANGED <<sinceChange, burstChanges>>
       ELSE /\ sinceChange' = 0
            /\ burstChanges' = IF quiet THEN 1
                               ELSE IF burstChanges < 2 THEN burstChanges + 1 ELSE 2
            /\ burstReqs' = IF quiet THEN 0 ELSE reqs

NoteRequest(issued) ==
    /\ burstReqs' = IF issued /\ burstReqs < 2 THEN burstReqs + 1 ELSE burstReqs
    /\ UNCHANGED <<sinceChange, burstChanges>>

\* A render of QueryView with the given props and state: the descriptor is
\* recomputed, the observer builds the query of the new key and gives the
\* optimistic result; the passive effects of the commit are pending.
Render(url, key, table, rows, lop, ob, lim, off, flds) ==
    LET body == ComputeQueryBody(table, rows, lop, ob, lim, off, flds)
        k == QueryKey(url, key, table, body)
        q == Build(queries, k)
    IN /\ queryBody' = body
       /\ queries' = q
       /\ visible' = CreateResult(q, k, k # obsKey /\ Enabled(k), lastDefined)
       /\ pc' = "effects"
       /\ NoteChange(k # QueryKey(apiBaseUrl, apiKey, selectedTable, queryBody))

\* ------------------------------------------------------------ user events
\* Each handler sets state; React then renders the component. A handler runs
\* only between commits (pc = "idle").

CanAct == pc = "idle" /\ nextId + 1 <= MaxReqs

\* onSelectTable (the table <select> of QueryView or of the Navbar, or the
\* upload panel's onComplete): Index's setSelectedTable. The "Select table..."
\* option gives "".
SelectTable(t) ==
    /\ CanAct
    /\ t # selectedTable
    /\ ~(t = "" /\ selectedTable = Undefined)
    /\ selectedTable' = t
    /\ Render(apiBaseUrl, apiKey, t, filters, logical, orderBy, limit, offset, fields)
    /\ UNCHANGED <<draftVars, resetDeps, obsKey, lastDefined, inflight, nextId,
                   timer, toasts, exports, now, grid, configVars, compiled>>

\* "Add column..." select (its options are the columns of the selected table):
\* setFields(prev => prev.includes(v) ? prev : [...prev, v]).
AddField(c) ==
    /\ CanAct
    /\ Truthy(selectedTable)
    /\ \A i \in 1..Len(fields) : fields[i] # c
    /\ fields' = Append(fields, c)
    /\ Render(apiBaseUrl, apiKey, selectedTable, filters, logical, orderBy, limit, offset, fields')
    /\ UNCHANGED <<selectedTable, filters, logical, orderBy, limit, offset,
                   resetDeps, obsKey, lastDefined, inflight, nextId, timer,
                   toasts, exports, now, grid, configVars, compiled>>

NotColumn(c) == LET Keep(x) == x # c IN SelectSeq(fields, Keep)

\* The "x" button of a projected column: setFields(prev => prev.filter(x => x !== f)).
RemoveField(c) ==
    /\ CanAct
    /\ \E i \in 1..Len(fields) : fields[i] = c
    /\ fields' = NotColumn(c)
    /\ Render(apiBaseUrl, apiKey, selectedTable, filters, logical, orderBy, limit, offset, fields')
    /\ UNCHANGED <<selectedTable, filters, logical, orderBy, limit, offset,
                   resetDeps, obsKey, lastDefined, inflight, nextId, timer,
                   toasts, exports, now, grid, configVars, compiled>>

SetFilters(rows) ==
    /\ filters' = rows
    /\ Render(apiBaseUrl, apiKey, selectedTable, rows, logical, orderBy, limit, offset, fields)
    /\ UNCHANGED <<selectedTable, fields, logical, orderBy, limit, offset,
                   resetDeps, obsKey, lastDefined, inflight, nextId, timer,
                   toasts, exports, now, grid, configVars, compiled>>

\* "Add row": setFilters(f => [...f, { op: "eq" }]).
AddRow ==
    /\ CanAct
    /\ SetFilters(Append(filters,
                         [column |-> Undefined, op |-> "eq", value |-> UndefinedText]))

\* The text an input shows for a row's value: f.value || "".
Shown(f) == IF f.value = UndefinedText THEN <<>> ELSE f.value

\* The column <select> of row idx shows f.column || ""; its options are
\* "Column..." ("") and the columns of the selected table. Without a table
\* the columns query is disabled and "Column..." is the only option.
SetRowColumn(idx, c) ==
    /\ CanAct
    /\ idx \in 1..Len(filters)
    /\ Truthy(selectedTable)
    /\ c # (IF filters[idx].column = Undefined THEN "" ELSE filters[idx].column)
    /\ SetFilters([filters EXCEPT ![idx].column = c])

\* The operator <select> of row idx: { ...it, op, value: undefined }.
SetRowOp(idx, op) ==
    /\ CanAct
    /\ idx \in 1..Len(filters)
    /\ op # filters[idx].op
    /\ SetFilters([filters EXCEPT ![idx].op = op, ![idx].value = UndefinedText])

\* The value <Input> of row idx (scalar and list operators).
SetRowValue(idx, v) ==
    /\ CanAct
    /\ idx \in 1..Len(filters)
    /\ filters[idx].op \notin NO_VALUE_OPS /\ filters[idx].op # "between"
    /\ v # Shown(filters[idx])
    /\ SetFilters([filters EXCEPT ![idx].value = v])

\* const [low, high] = (f.value || "").split(","); an input shows low ?? "".
Low(f) == Split(Shown(f), ",")[1]
High(f) ==
    LET parts == Split(Shown(f), ",") IN
    IF Len(parts) >= 2 THEN parts[2] ELSE <<>>

\* The "Low" <Input> of a between row: value: `${e.target.value},${high ?? ""}`.
SetRowLow(idx, v) ==
    /\ CanAct
    /\ idx \in 1..Len(filters)
    /\ filters[idx].op = "between"
    /\ v # Low(filters[idx])
    /\ SetFilters([filters EXCEPT ![idx].value = v \o <<",">> \o High(filters[idx])])

\* The "High" <Input> of a between row: value: `${low ?? ""},${e.target.value}`.
SetRowHigh(idx, v) ==
    /\ CanAct
    /\ idx \in 1..Len(filters)
    /\ filters[idx].op = "between"
    /\ v # High(filters[idx])
    /\ SetFilters([filters EXCEPT ![idx].value = Low(filters[idx]) \o <<",">> \o v])

\* "Remove": setFilters(arr => arr.filter((_, i) => i !== idx)).
RemoveRow(idx) ==
    /\ CanAct
    /\ idx \in 1..Len(filters)
    /\ SetFilters([i \in 1..(Len(filters) - 1) |->
                     IF i < idx THEN filters[i] ELSE filters[i + 1]])

SetOffset(o) ==
    /\ o # offset
    /\ offset' = o
    /\ Render(apiBaseUrl, apiKey, selectedTable, filters, logical, orderBy, limit, o, fields)
    /\ UNCHANGED <<selectedTable, fields, filters, logical, orderBy, limit,
                   resetDeps, obsKey, lastDefined, inflight, nextId, timer,
                   toasts, exports, now, grid, configVars, compiled>>

\* The sort column <select> shows orderBy.column || "": setOrderBy(p =>
\* ({ ...p, column })); its options are "None" ("") and the columns of the
\* selected table. Choosing the option shown delivers no change event;
\* without a table the columns query is disabled and "None" is the only
\* option.
SetOrderColumn(c) ==
    /\ CanAct
    /\ Truthy(selectedTable)
    /\ c # (IF orderBy.column = Undefined THEN "" ELSE orderBy.column)
    /\ orderBy' = [orderBy EXCEPT !.column = c]
    /\ Render(apiBaseUrl, apiKey, selectedTable, filters, logical, orderBy', limit, offset, fields)
    /\ UNCHANGED <<selectedTable, fields, filters, logical, limit, offset,
                   resetDeps, obsKey, lastDefined, inflight, nextId, timer,
                   toasts, exports, now, grid, configVars, compiled>>

\* The sort direction <select>: setOrderBy(p => ({ ...p, direction })).
SetOrderDirection(d) ==
    /\ CanAct
    /\ d # orderBy.direction
    /\ orderBy' = [orderBy EXCEPT !.direction = d]
    /\ Render(apiBaseUrl, apiKey, selectedTable, filters, logical, orderBy', limit, offset, fields)
    /\ UNCHANGED <<selectedTable, fields, filters, logical, limit, offset,
                   resetDeps, obsKey, lastDefined, inflight, nextId, timer,
                   toasts, exports, now, grid, configVars, compiled>>

\* "Prev": setOffset(o => Math.max(0, o - limit)).
PrevPage ==
    /\ CanAct
    /\ SetOffset(IF offset - limit > 0 THEN offset - limit ELSE 0)

\* "Next": setOffset(o => o + limit).
NextPage ==
    /\ CanAct
    /\ offset + limit <= MaxPage * limit
    /\ SetOffset(offset + limit)

\* Texts typed into the limit <Input type="number">.
LimitTexts == {<<"3", "0">>, <<"1", "0", "0">>}

\* The limit input: setLimit(Math.max(1, Number(e.target.value))).
SetLimit(text) ==
    LET n == NumberOf(text)
        lim == IF n > 1 THEN n ELSE 1
    IN /\ CanAct
       /\ lim # limit
       /\ limit' = lim
       /\ Render(apiBaseUrl, apiKey, selectedTable, filters, logical, orderBy, lim, offset, fields)
       /\ UNCHANGED <<selectedTable, fields, filters, logical, orderBy, offset,
                      resetDeps, obsKey, lastDefined, inflight, nextId, timer,
                      toasts, exports, now, grid, configVars, compiled>>

\* The logical operator <select>: setLogical(e.target.value).
SetLogical(lop) ==
    /\ CanAct
    /\ lop # logical
    /\ logical' = lop
    /\ Render(apiBaseUrl, apiKey, selectedTable, filters, lop, orderBy, limit, offset, fields)
    /\ UNCHANGED <<selectedTable, fields, filters, orderBy, limit, offset,
                   resetDeps, obsKey, lastDefined, inflight, nextId, timer,
                   toasts, exports, now, grid, configVars, compiled>>

\* setApiBaseUrl: set({ apiBaseUrl: url.trim().replace(/\/?$/, "") }): the text
\* without the blanks around it and without one trailing slash.
NormalizeUrl(url) ==
    LET t == Trim(url) IN
    IF t # <<>> /\ t[Len(t)] = "/" THEN SubSeq(t, 1, Len(t) - 1) ELSE t

\* The settings dialog's URL input: the store is set and QueryView, which
\* reads the whole store, renders with the new query key.
SetApiBaseUrl(url) ==
    /\ CanAct
    /\ apiBaseUrl' = NormalizeUrl(url)
    /\ Render(apiBaseUrl', apiKey, selectedTable, filters, logical, orderBy,
              limit, offset, fields)
    /\ UNCHANGED <<selectedTable, draftVars, resetDeps, obsKey, lastDefined,
                   inflight, nextId, timer, toasts, exports, now, grid, apiKey,
                   compiled>>

\* The settings dialog's key input: setApiKey: set({ apiKey: key }).
SetApiKey(key) ==
    /\ CanAct
    /\ apiKey' = key
    /\ Render(apiBaseUrl, apiKey', selectedTable, filters, logical, orderBy,
              limit, offset, fields)
    /\ UNCHANGED <<selectedTable, draftVars, resetDeps, obsKey, lastDefined,
                   inflight, nextId, timer, toasts, exports, now, grid,
                   apiBaseUrl, compiled>>

\* "Run Query": runQuery -> debouncedRefetch: the pending timer is cleared and
\* a new one armed.
RunQuery ==
    /\ CanAct
    /\ timer' = Append(ClearTimeout(timer), DebounceTicks)
    /\ UNCHANGED <<selectedTable, draftVars, queryBody, resetDeps, pc, queryVars,
                   toasts, exports, now, grid, histVars,
                   configVars, compiled>>

\* ----------------------------------------------------- commit and effects

\* A reset effect that also clears the sort column.
SortCleared(ob) == [ob EXCEPT !.column = Undefined]

\* The sort after the reset effect: the effect calls setFields, setFilters and
\* setOffset only, so orderBy (like logical and limit) is what it was.
SortAfterReset(ob) == ob

\* The passive effects of the committed render, in the order of their hooks:
\* the reset effect (it runs when selectedTable differs from the value it last
\* ran for; its setState calls take effect in the next render) and the query
\* observer's setOptions for the rendered key (the observer moves to the query
\* of that key and fetches it when the key is new and enabled, unless that
\* query is fetching already). When the reset effect set state, the component
\* renders again with the reset drafts and another commit follows.
FlushEffects ==
    LET k == QueryKey(apiBaseUrl, apiKey, selectedTable, queryBody)
        reset == resetDeps # selectedTable
        newReq == k # obsKey /\ Enabled(k) /\ queries[k].fetchStatus = "idle"
        q1 == IF newReq THEN [queries EXCEPT ![k] = StartFetch(@, nextId)]
              ELSE queries
        ld == IF q1[k].data # 0 THEN Some(k) ELSE lastDefined
        body2 == ComputeQueryBody(selectedTable, <<>>, logical,
                                  SortAfterReset(orderBy), limit, 0, <<>>)
        k2 == QueryKey(apiBaseUrl, apiKey, selectedTable, body2)
    IN /\ pc = "effects"
       /\ obsKey' = k
       /\ lastDefined' = ld
       /\ inflight' = IF newReq THEN inflight \cup {[id |-> nextId, key |-> k]}
                      ELSE inflight
       /\ nextId' = IF newReq THEN nextId + 1 ELSE nextId
       /\ NoteEffects(newReq, reset /\ k2 # k)
       /\ resetDeps' = selectedTable
       /\ IF reset
          THEN /\ fields' = <<>>
               /\ filters' = <<>>
               /\ offset' = 0
               /\ orderBy' = SortAfterReset(orderBy)
               /\ queryBody' = body2
               /\ queries' = Build(q1, k2)
               /\ visible' = CreateResult(queries', k2, k2 # k /\ Enabled(k2), ld)
               /\ pc' = "effects"
          ELSE /\ UNCHANGED <<fields, filters, offset, orderBy, queryBody>>
               /\ queries' = q1
               /\ visible' = CreateResult(q1, k, FALSE, ld)
               /\ pc' = "idle"
       /\ UNCHANGED <<selectedTable, logical, limit, timer, toasts, exports,
                      now, grid, configVars, compiled>>

\* ---------------------------------------------------------------- network

\* An observer that stays subscribed to the queries of the keys it has left.
ObservedAlways(k) == TRUE

\* The observer listens to the query of key k: it is subscribed to the query of
\* the current key only (useQuery is keyed by queryBody).
Observed(k) == k = obsKey

\* The observer's onQueryUpdate after the query of key k, which it listens to,
\* changed: the last query with data is noted and the component renders the
\* new result.
Notify(q, k) ==
    /\ lastDefined' = IF q[k].data # 0 THEN Some(k) ELSE lastDefined
    /\ visible' = CreateResult(q, k, FALSE, lastDefined)

\* queryData resolves for request r (res.ok): the query of r's key takes the
\* payload unless the fetch was cancelled by a later refetch. Only the query the
\* observer is subscribed to is rendered.
RespondOk(r) ==
    LET live == queries[r.key].active = r.id
        q == IF live
             THEN [queries EXCEPT ![r.key] = [data |-> r.id, status |-> "success",
                                              fetchStatus |-> "idle", active |-> 0]]
             ELSE queries
    IN /\ pc = "idle"
       /\ r \in inflight
       /\ inflight' = inflight \ {r}
       /\ queries' = q
       /\ IF live /\ Observed(r.key) THEN Notify(q, r.key)
          ELSE UNCHANGED <<lastDefined, visible>>
       /\ UNCHANGED <<selectedTable, draftVars, queryBody, resetDeps, pc, obsKey,
                      nextId, timer, toasts, exports, now, grid, histVars,
                   configVars, compiled>>

\* queryData throws for request r (!res.ok, or fetch rejects): the query keeps
\* its data and goes to status "error". No notification is raised anywhere.
RespondFail(r) ==
    LET live == queries[r.key].active = r.id
        q == IF live
             THEN [queries EXCEPT ![r.key] = [@ EXCEPT !.status = "error",
                                                       !.fetchStatus = "idle",
                                                       !.active = 0]]
             ELSE queries
    IN /\ pc = "idle"
       /\ r \in inflight
       /\ inflight' = inflight \ {r}
       /\ queries' = q
       /\ IF live /\ Observed(r.key) THEN Notify(q, r.key)
          ELSE UNCHANGED <<lastDefined, visible>>
       /\ UNCHANGED <<selectedTable, draftVars, queryBody, resetDeps, pc, obsKey,
                      nextId, timer, toasts, exports, now, grid, histVars,
                   configVars, compiled>>

\* ------------------------------------------------------------------ timer

\* The debounce timer fires: refetch() of the observer's current query, whether
\* or not the query is enabled. A fetch in flight for a query with data is
\* cancelled (its response will be ignored) and a new request sent; a fetch in
\* flight for a query without data is joined.
TimerFire ==
    LET st == queries[obsKey]
        newReq == st.fetchStatus = "idle" \/ st.data # 0
        q == IF newReq THEN [queries EXCEPT ![obsKey] = StartFetch(@, nextId)]
             ELSE queries
    IN /\ pc = "idle"
       /\ timer # <<>> /\ Head(timer) = 0
       /\ nextId <= MaxReqs
       /\ timer' = Tail(timer)
       /\ queries' = q
       /\ inflight' = IF newReq THEN inflight \cup {[id |-> nextId, key |-> obsKey]}
                      ELSE inflight
       /\ nextId' = IF newReq THEN nextId + 1 ELSE nextId
       /\ Notify(q, obsKey)
       /\ NoteRequest(newReq)
       /\ UNCHANGED <<selectedTable, draftVars, queryBody, resetDeps, pc, obsKey,
                      toasts, exports, now, grid, configVars, compiled>>

\* A clock tick: Date.now() advances and every pending timeout is one tick
\* nearer. A timer that is due fires before time moves on.
Tick ==
    /\ pc = "idle"
    /\ now < MaxClock
    /\ \A i \in 1..Len(timer) : timer[i] # 0
    /\ now' = now + 1
    /\ timer' = [i \in 1..Len(timer) |-> timer[i] - 1]
    /\ sinceChange' = IF sinceChange < DebounceTicks THEN sinceChange + 1
                      ELSE sinceChange
    /\ UNCHANGED <<selectedTable, draftVars, queryBody, resetDeps, pc, queryVars,
                   toasts, exports, grid, burstChanges, burstReqs,
                   configVars, compiled>>

\* ------------------------------------------------------------ specification

InitKey == QueryKey(DefaultBaseUrl, "", Undefined, None)

\* The state after QueryView mounted: no table, empty drafts, the observer
\* subscribed to the disabled query of the initial key.
InitView ==
    /\ selectedTable = Undefined
    /\ fields = <<>>
    /\ filters = <<>>
    /\ logical = "AND"
    /\ orderBy = [column |-> Undefined, direction |-> "desc"]
    /\ limit = 100
    /\ offset = 0
    /\ queryBody = None
    /\ resetDeps = Undefined
    /\ pc = "idle"
    /\ queries = (InitKey :> NewQuery)
    /\ obsKey = InitKey
    /\ lastDefined = None
    /\ visible = 0
    /\ inflight = {}
    /\ nextId = 1
    /\ timer = NoTimer
    /\ toasts = {}
    /\ exports = <<>>
    /\ now = 0
    /\ grid = EmptyGrid
    /\ apiBaseUrl = DefaultBaseUrl
    /\ apiKey = ""
    /\ sinceChange = DebounceTicks
    /\ burstChanges = 0
    /\ burstReqs = 0

Init == InitView /\ compiled = NoCall

\* The execution controller: table selection, paging, Run Query, a new API
\* key, the clock and the network.
Next ==
    \/ \E t \in Tables \cup {""} : SelectTable(t)
    \/ PrevPage
    \/ NextPage
    \/ RunQuery
    \/ \E key \in ApiKeys : SetApiKey(key)
    \/ FlushEffects
    \/ \E r \in inflight : RespondOk(r)
    \/ \E r \in inflight : RespondFail(r)
    \/ TimerFire
    \/ Tick

Spec == Init /\ [][Next]_vars

\* The queries of the cache while the settings dialog changes the base URL
\* and the API key and the table selection changes.
NextConfig ==
    \/ \E t \in Tables \cup {""} : SelectTable(t)
    \/ \E url \in UrlTexts : SetApiBaseUrl(url)
    \/ \E key \in ApiKeys : SetApiKey(key)
    \/ FlushEffects
    \/ \E r \in inflight : RespondOk(r)
    \/ \E r \in inflight : RespondFail(r)

SpecConfig == Init /\ [][NextConfig]_vars

\* The query form: table selection and the drafts of fields, rows and offset.
NextDraft ==
    \/ \E t \in Tables \cup {""} : SelectTable(t)
    \/ \E c \in Columns : AddField(c)
    \/ \E c \in Columns : RemoveField(c)
    \/ Len(filters) < MaxRows /\ AddRow
    \/ \E i \in 1..MaxRows, c \in Columns : SetRowColumn(i, c)
    \/ \E i \in 1..MaxRows, v \in ValueTexts : SetRowValue(i, v)
    \/ \E i \in 1..MaxRows : RemoveRow(i)
    \/ \E c \in Columns \cup {""} : SetOrderColumn(c)
    \/ \E d \in {"asc", "desc"} : SetOrderDirection(d)
    \/ PrevPage
    \/ NextPage
    \/ FlushEffects
    \/ \E r \in inflight : RespondOk(r)

SpecDraft == Init /\ [][NextDraft]_vars

\* Pagination: table selection, Prev, Next and the limit input.
NextPaging ==
    \/ \E t \in Tables \cup {""} : SelectTable(t)
    \/ PrevPage
    \/ NextPage
    \/ \E text \in LimitTexts : SetLimit(text)
    \/ FlushEffects
    \/ \E r \in inflight : RespondOk(r)

SpecPaging == Init /\ [][NextPaging]_vars

\* Table selection among the settings the reset effect leaves alone: the
\* logical operator, the sort and the limit. The answers of the query
\* endpoint are left out: they leave the form's state alone.
NextSettings ==
    \/ \E t \in Tables \cup {""} : SelectTable(t)
    \/ \E lop \in {"AND", "OR"} : SetLogical(lop)
    \/ \E c \in Columns \cup {""} : SetOrderColumn(c)
    \/ \E d \in {"asc", "desc"} : SetOrderDirection(d)
    \/ \E text \in LimitTexts : SetLimit(text)
    \/ NextPage
    \/ FlushEffects

SpecSettings == Init /\ [][NextSettings]_vars

\* ------------------------------------------------------------------ export
\* One onExport invocation is one element of `exports`:
\*   state   "opening" (awaiting streamData), "reading" (awaiting reader.read()),
\*           "done" or "failed"
\*   table   selectedTable of the render whose handler was clicked
\*   sent    the chunks the server has delivered on this stream, in order
\*   chunks  the invocation's local `chunks`
\*   lines   the invocation's local `lines`
\*   progress  the description of the updatable "Export started" toast:
\*           NoToast before it exists, else the lines shown
\*   saved   the files this invocation offered for download (a.click()):
\*           the table and the milliseconds of the name, and the bytes
\*   startedAt  history: Date.now() when onExport was called

JobIds == {1, 2}
NoToast == 0 - 1

\* Bytes on the wire: "a", "\n", and the two bytes of a two-byte character.
LF == 10
ChunkSet == {<<97, 10, 97, 10>>, <<97, 10>>, <<>>, <<195>>, <<169, 10>>}
Replacement == 65533

IsLead2(b) == b >= 194 /\ b <= 223
IsCont(b) == b >= 128 /\ b <= 191

\* new TextDecoder().decode(value): UTF-8 to code points, one call per chunk
\* (no streaming): a byte that is not part of a complete sequence decodes to
\* U+FFFD. Exact for ASCII and two-byte sequences.
RECURSIVE Decode(_)
Decode(bytes) ==
    IF bytes = <<>> THEN <<>>
    ELSE LET b == Head(bytes) IN
         IF b < 128 THEN <<b>> \o Decode(Tail(bytes))
         ELSE IF IsLead2(b) /\ Len(bytes) >= 2 /\ IsCont(bytes[2])
              THEN <<(b - 192) * 64 + (bytes[2] - 128)>> \o Decode(Tail(Tail(bytes)))
         ELSE <<Replacement>> \o Decode(Tail(bytes))

\* text.split("\n").filter(Boolean).length
CountLines(text) == Len(SelectSeq(Split(text, LF), NonEmpty))

\* The lines one chunk adds to the counter.
ChunkLines(value) == CountLines(Decode(value))

\* TextEncoder's UTF-8 encoding of code points below 65536.
RECURSIVE Encode(_)
Encode(text) ==
    IF text = <<>> THEN <<>>
    ELSE LET c == Head(text) IN
         (IF c < 128 THEN <<c>>
          ELSE IF c < 2048 THEN <<192 + (c \div 64), 128 + (c % 64)>>
          ELSE <<224 + (c \div 4096), 128 + ((c \div 64) % 64), 128 + (c % 64)>>)
         \o Encode(Tail(text))

\* A buffer that keeps the decoded text of the chunk, encoded again.
PushDecoded(chunks, value) == Append(chunks, Encode(Decode(value)))

\* chunks.push(value)
PushChunk(chunks, value) == Append(chunks, value)

RECURSIVE Concat(_)
Concat(chunks) ==
    IF chunks = <<>> THEN <<>> ELSE Head(chunks) \o Concat(Tail(chunks))

\* new Blob(chunks): the bytes of the chunks, in order.
Blob(chunks) == Concat(chunks)

\* streamData: the stream of the response, or a throw when the response is not
\* ok or has no body, or when fetch itself rejects.
StreamData(res) ==
    IF res.rejected THEN "throw"
    ELSE IF ~res.ok \/ ~res.body THEN "throw"
    ELSE "stream"

Responses ==
    {[rejected |-> TRUE, ok |-> FALSE, body |-> FALSE],
     [rejected |-> FALSE, ok |-> FALSE, body |-> TRUE],
     [rejected |-> FALSE, ok |-> TRUE, body |-> FALSE],
     [rejected |-> FALSE, ok |-> TRUE, body |-> TRUE]}

ExportUnchanged ==
    UNCHANGED <<selectedTable, draftVars, queryBody, resetDeps, pc, queryVars,
                timer, histVars, now, grid, configVars, compiled>>

\* The "Export" button: onExport up to its first await. Without a table or a
\* descriptor the handler returns at once.
StartExport ==
    /\ pc = "idle"
    /\ Truthy(selectedTable) /\ queryBody.present
    /\ Len(exports) < Cardinality(JobIds)
    /\ exports' = Append(exports,
                         [state |-> "opening", table |-> selectedTable,
                          body |-> queryBody, sent |-> <<>>, chunks |-> <<>>,
                          lines |-> 0, progress |-> NoToast, saved |-> <<>>,
                          startedAt |-> now])
    /\ UNCHANGED toasts
    /\ ExportUnchanged

\* A handler that offers what was buffered when the export fails.
CatchSavingPartial(j) ==
    /\ exports' = [exports EXCEPT
                     ![j].state = "failed",
                     ![j].saved = Append(@, [table |-> exports[j].table,
                                             millis |-> now,
                                             bytes |-> Concat(exports[j].chunks)])]
    /\ toasts' = toasts \cup {[job |-> j, title |-> "Export failed", lines |-> 0]}

\* A handler that swallows the failure.
CatchSilently(j) ==
    /\ exports' = [exports EXCEPT ![j].state = "failed"]
    /\ UNCHANGED toasts

\* The catch block: toast "Export failed"; nothing is downloaded.
Catch(j) ==
    /\ exports' = [exports EXCEPT ![j].state = "failed"]
    /\ toasts' = toasts \cup {[job |-> j, title |-> "Export failed", lines |-> 0]}

\* await streamData(...) settles with response res.
StreamOpen(j, res) ==
    /\ j \in 1..Len(exports)
    /\ exports[j].state = "opening"
    /\ IF StreamData(res) = "stream"
       THEN /\ exports' = [exports EXCEPT ![j].state = "reading", ![j].progress = 0]
            /\ UNCHANGED toasts
       ELSE Catch(j)
    /\ ExportUnchanged

\* One buffer list shared by every invocation (here: the first one's).
SharedBufferAfterPush(j, value) == PushChunk(exports[1].chunks, value)

\* `chunks` is a local of the invocation: the push goes to j's own list.
BufferAfterPush(j, value) == PushChunk(exports[j].chunks, value)

\* await reader.read() gives { done: false, value }.
ReadChunk(j, value) ==
    /\ j \in 1..Len(exports)
    /\ exports[j].state = "reading"
    /\ Len(exports[j].sent) < MaxChunks
    /\ exports' = [exports EXCEPT
                     ![j].sent = Append(@, value),
                     ![j].chunks = BufferAfterPush(j, value),
                     ![j].lines = @ + ChunkLines(value),
                     ![j].progress = exports[j].lines + ChunkLines(value)]
    /\ UNCHANGED toasts
    /\ ExportUnchanged

\* await reader.read() gives { done: true }: the blob is offered for download
\* and "Export complete" is raised with the counter.
ReadDone(j) ==
    /\ j \in 1..Len(exports)
    /\ exports[j].state = "reading"
    /\ exports' = [exports EXCEPT
                     ![j].state = "done",
                     ![j].saved = Append(@, [table |-> exports[j].table,
                                             millis |-> now,
                                             bytes |-> Blob(exports[j].chunks)])]
    /\ toasts' = toasts \cup {[job |-> j, title |-> "Export complete",
                               lines |-> exports[j].lines]}
    /\ ExportUnchanged

\* await reader.read() rejects.
ReadFail(j) ==
    /\ j \in 1..Len(exports)
    /\ exports[j].state = "reading"
    /\ Catch(j)
    /\ ExportUnchanged

\* A state of Spec: "orders" was selected and its commits have run.
InitExport ==
    LET body == ComputeQueryBody("orders", <<>>, "AND",
                                 [column |-> Undefined, direction |-> "desc"],
                                 100, 0, <<>>)
        k == QueryKey(DefaultBaseUrl, "", "orders", body)
    IN /\ selectedTable = "orders"
       /\ fields = <<>>
       /\ filters = <<>>
       /\ logical = "AND"
       /\ orderBy = [column |-> Undefined, direction |-> "desc"]
       /\ limit = 100
       /\ offset = 0
       /\ queryBody = body
       /\ resetDeps = "orders"
       /\ pc = "idle"
       /\ queries = (InitKey :> NewQuery) @@ (k :> StartFetch(NewQuery, 1))
       /\ obsKey = k
       /\ lastDefined = None
       /\ visible = 0
       /\ inflight = {[id |-> 1, key |-> k]}
       /\ nextId = 2
       /\ timer = NoTimer
       /\ toasts = {}
       /\ exports = <<>>
       /\ now = 0
       /\ grid = EmptyGrid
       /\ apiBaseUrl = DefaultBaseUrl
       /\ apiKey = ""
       /\ compiled = NoCall
       /\ sinceChange = 0
       /\ burstChanges = 1
       /\ burstReqs = 1

NextExport ==
    \/ StartExport
    \/ \E j \in JobIds, res \in Responses : StreamOpen(j, res)
    \/ \E j \in JobIds, value \in ChunkSet : ReadChunk(j, value)
    \/ \E j \in JobIds : ReadDone(j)
    \/ \E j \in JobIds : ReadFail(j)

SpecExport == InitExport /\ [][NextExport]_vars

\* ------------------------------------------------- the filter rows' editors
\* The descriptor as the rows are edited: one row taken through its column,
\* operator and value inputs while "orders" is selected. Every edit renders,
\* and the observer follows the descriptor.

\* Texts typed or pasted into a row's value input.
CompileTexts ==
    {<<>>, <<" ">>, <<"t", "r", "u", "e">>, <<"f", "a", "l", "s", "e">>,
     <<"T", "r", "u", "e">>, <<"4", "2">>, <<" ", "4", "2", " ">>,
     <<"4", "2", "a", "b", "c">>,
     <<"a", ",", " ", "b", " ", ",">>, <<",">>,
     <<"t", "r", "u", "e", ",", "4", "2">>}

\* Texts typed or pasted into the Low and High inputs of a between row.
BetweenTexts == {<<>>, <<" ">>, <<"1">>, <<"5">>, <<",", "5">>, <<"2", ",", "3">>}

NextCompile ==
    \/ Len(filters) < MaxRows /\ AddRow
    \/ \E c \in {"status", ""} : SetRowColumn(1, c)
    \/ \E i \in 1..Len(OPS) : SetRowOp(1, OPS[i])
    \/ \E v \in CompileTexts : SetRowValue(1, v)
    \/ \E v \in BetweenTexts : SetRowLow(1, v)
    \/ \E v \in BetweenTexts : SetRowHigh(1, v)
    \/ RemoveRow(1)
    \/ FlushEffects

SpecCompile == InitExport /\ [][NextCompile]_vars

\* Several rows edited together: rows that compile and rows that are dropped,
\* of every operator class.
SampleOps == {"in", "between", "is_null"}

NextCompileRows ==
    \/ Len(filters) < MaxCompiled /\ AddRow
    \/ \E i \in 1..MaxCompiled : SetRowColumn(i, "status")
    \/ \E i \in 1..MaxCompiled, op \in SampleOps : SetRowOp(i, op)
    \/ \E i \in 1..MaxCompiled : SetRowValue(i, <<"4", "2">>)
    \/ \E i \in 1..MaxCompiled : SetRowLow(i, <<"1">>)
    \/ \E i \in 1..MaxCompiled : RemoveRow(i)
    \/ FlushEffects

SpecCompileRows == InitExport /\ [][NextCompileRows]_vars

\* The callback of filters.map as a function of the row it is given: the rows
\* are the values of the filters state's row type, whether or not the editors
\* can produce them.
RowColumns == {Undefined, ""} \cup Columns

RowInputs ==
    [column : RowColumns,
     op : {OPS[i] : i \in 1..Len(OPS)},
     value : CompileTexts \cup {UndefinedText, <<"1", ",", "2", ",", "3">>}]

\* The callback is called with a row.
InitCompileRow ==
    /\ InitView
    /\ \E f \in RowInputs : compiled = [pending |-> TRUE, done |-> FALSE, row |-> f]

\* The callback returns.
ReturnCompileRow ==
    /\ compiled.pending
    /\ compiled' = [pending |-> FALSE, done |-> TRUE, row |-> compiled.row,
                    out |-> CompileRow(compiled.row)]
    /\ UNCHANGED <<selectedTable, draftVars, queryBody, resetDeps, pc,
                   queryVars, timer, toasts, exports, now, grid, histVars,
                   configVars>>

NextCompileRow == ReturnCompileRow

SpecCompileRow == InitCompileRow /\ [][NextCompileRow]_vars

\* -------------------------------------------------------------- data grid
\* DataGrid's useColumnWidths memo: a pure function of the props columns and
\* rows. Pixels are kept in tenths where the source has fractions.

SampleMax == 100
CharPx == 8
MinWidth == 140
MaxWidth == 420
\* The damping factor 0.7, in tenths.
DampingTenths == 7

\* A text of n characters.
Text(n) == [i \in 1..n |-> "x"]

\* (val == null ? "" : String(val)).length
Length(val) == IF val = UndefinedText THEN 0 ELSE Len(val)

\* rows[i]?.[c]: undefined for a row without the key.
Cell(rows, i, c) == IF c \in DOMAIN rows[i] THEN rows[i][c] ELSE UndefinedText

\* A sample of every row.
AllRows(rows) == Len(rows)

\* Math.min(100, rows.length)
SampleCount(rows) == IF Len(rows) < SampleMax THEN Len(rows) ELSE SampleMax

\* The longest value the for loop meets in its passes lo..hi (the running
\* maximum of the loop, computed by halves).
RECURSIVE SampleLoop(_, _, _, _)
SampleLoop(c, rows, lo, hi) ==
    IF lo > hi THEN 0
    ELSE IF lo = hi THEN Length(Cell(rows, lo, c))
    ELSE LET mid == (lo + hi) \div 2
             a == SampleLoop(c, rows, lo, mid)
             b == SampleLoop(c, rows, mid + 1, hi)
         IN IF b > a THEN b ELSE a

\* maxLen when the loop has ended: it starts from the header's length and is
\* raised by every longer sampled value.
MaxLenOf(c, rows) ==
    LET len == SampleLoop(c, rows, 1, SampleCount(rows))
    IN IF len > Len(c) THEN len ELSE Len(c)

\* An estimate that is not clamped.
Unclamped(px10) == px10

\* Math.min(max, Math.max(min, px)), on tenths of a pixel.
Clamp(px10) ==
    LET low == IF px10 > MinWidth * 10 THEN px10 ELSE MinWidth * 10
    IN IF low < MaxWidth * 10 THEN low ELSE MaxWidth * 10

\* Math.round, from tenths of a pixel to pixels.
Round(px10) == (px10 + 5) \div 10

ColumnWidth(c, rows) ==
    Round(Clamp(MaxLenOf(c, rows) * CharPx * DampingTenths))

useColumnWidths(columns, rows) ==
    [k \in 1..Len(columns) |-> ColumnWidth(columns[k], rows)]

\* Props of the grid: the columns, and n rows of one-character ids of which
\* row k holds an id of len characters and a null in the second column.
GridColumns == {<<"id">>, <<"id", "customer_shipping_address_line">>}
GridRowCounts == {0, 1, 2, 100, 101}
GridLengths == {0, 1, 2, 17, 18, 25, 26, 30, 31, 50, 75, 76, 80}

GridRows(n, k, len) ==
    [i \in 1..n |->
        IF i = k
        THEN [id |-> Text(len), customer_shipping_address_line |-> UndefinedText]
        ELSE [id |-> Text(1)]]

\* DataGrid renders with props columns and rows.
RenderGrid(columns, rows) ==
    /\ grid' = [columns |-> columns, rows |-> rows,
                widths |-> useColumnWidths(columns, rows)]
    /\ UNCHANGED <<selectedTable, draftVars, queryBody, resetDeps, pc,
                   queryVars, timer, toasts, exports, now, histVars,
                   configVars, compiled>>

NextGrid ==
    \E columns \in GridColumns, n \in GridRowCounts, len \in GridLengths :
        \E k \in {1, n} : RenderGrid(columns, GridRows(n, k, len))

SpecGrid == Init /\ [][NextGrid]_vars

\* Chunks of the stream of the export followed below.
NameChunks == {<<97, 10>>}

\* One export, while time passes and the table selection changes.
NextExportName ==
    \/ exports = <<>> /\ StartExport
    \/ \E res \in Responses : StreamOpen(1, res)
    \/ \E value \in NameChunks : ReadChunk(1, value)
    \/ ReadDone(1)
    \/ ReadFail(1)
    \/ Tick
    \/ \E t \in Tables \cup {""} : SelectTable(t)
    \/ FlushEffects
    \/ \E r \in inflight : RespondOk(r)

SpecExportName == InitExport /\ [][NextExportName]_vars

\* One export while the user changes the table, pages, and presses Run Query.
\* The stream is one that ends: its reads give chunks for a while and then
\* completion or a failure, and the awaited calls settle. The answers of the
\* query endpoint are left out: they leave the exports alone.
NextExportLive ==
    \/ exports = <<>> /\ StartExport
    \/ \E res \in Responses : StreamOpen(1, res)
    \/ \E value \in NameChunks : ReadChunk(1, value)
    \/ ReadDone(1)
    \/ ReadFail(1)
    \/ \E t \in Tables : SelectTable(t)
    \/ NextPage
    \/ RunQuery
    \/ Tick
    \/ TimerFire
    \/ FlushEffects

SpecExportLive ==
    /\ InitExport
    /\ [][NextExportLive]_vars
    /\ WF_vars(\E res \in Responses : StreamOpen(1, res))
    /\ WF_vars(ReadDone(1) \/ ReadFail(1))

\* ------------------------------------------------------------------ claims

\* The descriptor's drafts are the reset ones: no clause, no projection, offset 0.
CleanDescriptor(body) ==
    /\ body.v.filters = <<>>
    /\ ~body.v.fields.present
    /\ body.v.offset = 0

\* The committed render is the first one after the table changed from one
\* table to another: the reset effect has not run for the new table yet, so
\* the drafts are those made while resetDeps was the selected table.
TableJustChanged == Truthy(resetDeps) /\ resetDeps # selectedTable

\* C1: a table change resets fields, filter rows and offset before the next
\* descriptor is computed: no descriptor is computed, and no query request is
\* issued, that pairs the newly selected table with clauses, fields or an
\* offset drafted while another table was selected.
C1_ResetBeforeDescriptor ==
    /\ [](TableJustChanged /\ queryBody.present => CleanDescriptor(queryBody))
    /\ [][TableJustChanged =>
            \A r \in inflight' \ inflight : CleanDescriptor(r.key.body)]_vars

\* C2: two or more descriptor changes within one debounce window issue at most
\* one query request, and exactly one once the window has passed quietly.
C2_OneRequestPerBurst ==
    /\ burstChanges >= 2 => burstReqs <= 1
    /\ burstChanges >= 2 /\ sinceChange >= DebounceTicks /\ pc = "idle"
         => burstReqs = 1

\* A response arrives in this step: a request leaves the network.
Arrives(r) == r \in inflight /\ r \notin inflight'

\* C3: when request A was issued for a descriptor and request B later for a
\* newer one, the visible result ends as B's whatever the arrival order: once
\* the current descriptor's response is applied it is what is shown, and the
\* arrival of a response for a descriptor that is not the current one changes
\* nothing that is shown.
C3_StaleResponseDiscarded ==
    /\ [](pc = "idle" /\ queries[obsKey].data # 0
            => visible = queries[obsKey].data)
    /\ [][\A r \in inflight : Arrives(r) /\ r.key # obsKey
            => visible' = visible /\ lastDefined' = lastDefined]_vars

\* B's response is applied and shown while the older request A, for another
\* descriptor, is still on its way.
C3_Witness ==
    /\ pc = "idle"
    /\ queries[obsKey].data # 0
    /\ visible = queries[obsKey].data
    /\ \E a \in inflight : a.key # obsKey /\ a.id < visible

\* C4: no request is sent to the query endpoint while no table is selected.
C4_NoRequestWithoutTable == \A r \in inflight : Truthy(r.key.table)

\* The response to r is a failure that the query of r's key takes.
FailureApplied(r) ==
    /\ Arrives(r)
    /\ queries[r.key].active = r.id
    /\ queries'[r.key].status = "error"

\* C5: when a query request fails, the previously visible result is retained
\* and a failure notification is raised.
C5_FailureKeepsResultAndNotifies ==
    [][\A r \in inflight : FailureApplied(r)
         => visible' = visible /\ toasts' # toasts]_vars

\* C6: while a request is in flight the previously settled result remains the
\* visible result: the visible result changes only in a step in which a
\* response is applied.
C6_ChangesOnlyOnResponse ==
    [][visible' # visible => \E r \in inflight : Arrives(r)]_vars

\* The records of a whole stream: the non-empty lines of its bytes, decoded
\* as one text.
RecordsOf(bytes) == CountLines(Decode(bytes))

Completed(j) == [job |-> j, title |-> "Export complete", lines |-> exports[j].lines]
Failed(j) == [job |-> j, title |-> "Export failed", lines |-> 0]

\* C7: the record count reported by a completed export is the number of
\* newline-delimited records of the whole stream, wherever the chunk
\* boundaries fall.
C7_CountEqualsRecords ==
    \A j \in 1..Len(exports) :
        exports[j].state = "done"
            => /\ exports[j].lines = RecordsOf(Concat(exports[j].sent))
               /\ Completed(j) \in toasts

\* C8: a completed export offers exactly one file, whose bytes are the chunks
\* received, concatenated in arrival order and untouched; an export that has
\* not completed offers none.
C8_FileIsChunksInOrder ==
    \A j \in 1..Len(exports) :
        IF exports[j].state = "done"
        THEN /\ Len(exports[j].saved) = 1
             /\ exports[j].saved[1].bytes = Concat(exports[j].sent)
        ELSE exports[j].saved = <<>>

\* A completed export of two chunks, one of them a byte sequence that does not
\* survive decoding and encoding.
C8_Witness ==
    \E j \in 1..Len(exports) :
        /\ exports[j].state = "done"
        /\ Len(exports[j].sent) = 2
        /\ \E i \in 1..2 : Encode(Decode(exports[j].sent[i])) # exports[j].sent[i]
        /\ exports[j].saved[1].bytes = Concat(exports[j].sent)

\* C9: an export that fails (at initiation or at any read) stops, offers no
\* file, not even of the chunks it had buffered, and raises a failure
\* notification.
C9_NoFileOnFailure ==
    /\ [](\A j \in 1..Len(exports) :
            exports[j].state = "failed"
                => /\ exports[j].saved = <<>>
                   /\ Failed(j) \in toasts
                   /\ \A t \in toasts : t.job = j => t.title = "Export failed")
    /\ [][\A j \in 1..Len(exports) :
            exports[j].state = "failed" => exports'[j] = exports[j]]_vars

\* An export that failed after it had buffered a chunk.
C9_Witness ==
    \E j \in 1..Len(exports) :
        /\ exports[j].state = "failed"
        /\ exports[j].chunks # <<>>
        /\ exports[j].saved = <<>>

RECURSIVE SumLines(_)
SumLines(chunks) ==
    IF chunks = <<>> THEN 0 ELSE ChunkLines(Head(chunks)) + SumLines(Tail(chunks))

\* C10: overlapping exports share neither buffer nor counter: at every moment
\* each export's buffer holds exactly the chunks of its own stream, in order,
\* and its counter is the count of those chunks; a completed one offers its own
\* bytes and reports its own count; and an export that is reading can complete
\* whatever has happened to the other.
C10_ExportsIndependent ==
    \A j \in 1..Len(exports) :
        /\ exports[j].chunks = exports[j].sent
        /\ exports[j].lines = SumLines(exports[j].sent)
        /\ exports[j].state = "done"
             => /\ Len(exports[j].saved) = 1
                /\ exports[j].saved[1].table = exports[j].table
                /\ exports[j].saved[1].bytes = Concat(exports[j].sent)
                /\ Completed(j) \in toasts
        /\ exports[j].state = "reading" => ENABLED ReadDone(j)

\* Two exports are reading at once, the second with a buffer of its own that
\* differs from the first's.
C10_Witness ==
    /\ Len(exports) = 2
    /\ exports[1].state = "reading" /\ exports[2].state = "reading"
    /\ exports[1].chunks # <<>> /\ exports[2].chunks # <<>>
    /\ exports[1].chunks # exports[2].chunks

\* ---- the compiled clauses, stated from the rows

HasColumn(f) == f.column # Undefined /\ f.column # ""

\* The state holds one row, with a column, whose operator is one of ops.
RowIs(ops) ==
    /\ queryBody.present
    /\ Len(filters) = 1
    /\ HasColumn(filters[1])
    /\ filters[1].op \in ops

RawOf(f) == IF f.value = UndefinedText THEN <<>> ELSE f.value

Clauses == queryBody.v.filters

\* The comma-separated parts of a text, by the positions of its commas.
Cuts(raw) == {0, Len(raw) + 1} \cup {i \in 1..Len(raw) : raw[i] = ","}

NextCut(raw, a) ==
    CHOOSE b \in Cuts(raw) : b > a /\ \A c \in Cuts(raw) : c > a => c >= b

RECURSIVE PartsFrom(_, _)
PartsFrom(raw, a) ==
    IF a = Len(raw) + 1 THEN <<>>
    ELSE LET b == NextCut(raw, a)
         IN <<SubSeq(raw, a + 1, b - 1)>> \o PartsFrom(raw, b)

\* A text without the blanks around it.
Core(p) ==
    LET ink == {i \in 1..Len(p) : p[i] # " "} IN
    IF ink = {} THEN <<>>
    ELSE SubSeq(p, CHOOSE i \in ink : \A j \in ink : i <= j,
                   CHOOSE i \in ink : \A j \in ink : i >= j)

\* The tokens of a text: its comma-separated parts without the blanks around
\* them, the empty ones left out, in order.
TokensOf(raw) ==
    LET parts == PartsFrom(raw, 0)
        Inked(p) == Core(p) # <<>>
    IN SelectSeq([i \in 1..Len(parts) |-> Core(parts[i])], Inked)

\* The literal a token stands for: true, false, the number of a numeric
\* literal, else the token itself; the empty token is the empty string.
Literal(tok) ==
    IF tok = <<"t", "r", "u", "e">> THEN JSBool(TRUE)
    ELSE IF tok = <<"f", "a", "l", "s", "e">> THEN JSBool(FALSE)
    ELSE IF tok # <<>> /\ AllDigits(tok) THEN JSNum(DecimalValue(tok))
    ELSE JSStr(tok)

ScalarOps == {"eq", "neq", "lt", "lte", "gt", "gte", "like"}

\* C11: every value of a compiled clause is the literal of its trimmed token:
\* true, false, a number for a numeric literal, else the token itself, and the
\* empty string for the empty token.
C11_CoercionOfToken ==
    /\ RowIs(ScalarOps) /\ Clauses # <<>>
         => Clauses[1].value = Literal(Core(RawOf(filters[1])))
    /\ RowIs({"in", "in_range", "between"}) /\ Clauses # <<>>
         => LET toks == TokensOf(RawOf(filters[1])) IN
            /\ Len(Clauses[1].value) = Len(toks)
            /\ \A i \in 1..Len(toks) : Clauses[1].value[i] = Literal(toks[i])

\* C12: a between row with a column compiles to a clause exactly when its
\* value has two non-empty tokens; the clause's value is then the ordered pair
\* of their literals; with any other count the row is dropped.
C12_BetweenPair ==
    RowIs({"between"}) =>
        LET toks == TokensOf(RawOf(filters[1])) IN
        IF Len(toks) = 2
        THEN Clauses = <<[column |-> filters[1].column, op |-> "between",
                          value |-> <<Literal(toks[1]), Literal(toks[2])>>]>>
        ELSE Clauses = <<>>

\* The row between "1,5" compiled to the pair [1, 5] (the query of that
\* descriptor is in the cache), and the row is now "1,2,3" and dropped.
C12_Witness ==
    /\ RowIs({"between"})
    /\ filters[1].value = <<"1", ",", "2", ",", "3">>
    /\ Clauses = <<>>
    /\ \E k \in DOMAIN queries :
         /\ k.body.present
         /\ Len(k.body.v.filters) = 1
         /\ k.body.v.filters[1].op = "between"
         /\ k.body.v.filters[1].value = <<JSNum(1), JSNum(5)>>

\* C13: a list row (in, in_range) with a column compiles to the ordered list
\* of the literals of its non-empty trimmed tokens; without such a token the
\* row is dropped, so no list clause carries an empty list.
C13_ListTokens ==
    RowIs({"in", "in_range"}) =>
        LET toks == TokensOf(RawOf(filters[1])) IN
        IF toks # <<>>
        THEN Clauses = <<[column |-> filters[1].column, op |-> filters[1].op,
                          value |-> [i \in 1..Len(toks) |-> Literal(toks[i])]]>>
        ELSE Clauses = <<>>

\* The row in "a, b ," compiled to the list ["a", "b"].
C13_Witness ==
    /\ RowIs({"in"})
    /\ filters[1].value = <<"a", ",", " ", "b", " ", ",">>
    /\ Len(Clauses) = 1
    /\ Clauses[1].value = <<JSStr(<<"a">>), JSStr(<<"b">>)>>

\* C14: a scalar row with a column compiles to a clause exactly when its value
\* has a non-empty token once trimmed; the clause's value is the coercion of
\* that token, so no scalar clause carries the coercion of an empty token.
C14_ScalarToken ==
    RowIs(ScalarOps) =>
        LET tok == Core(RawOf(filters[1])) IN
        IF tok # <<>>
        THEN Clauses = <<[column |-> filters[1].column, op |-> filters[1].op,
                          value |-> coerceType(tok)]>>
        ELSE Clauses = <<>>

\* C15: the callback, given a row with a column and a no-value operator
\* (is_null, is_not_null), always returns a clause of column and operator
\* only: the clause has no value key whatever the row's value is (absent,
\* empty, or a stray text).
C15_NoValueKey ==
    (/\ compiled.done
     /\ HasColumn(compiled.row)
     /\ compiled.row.op \in {"is_null", "is_not_null"})
    => /\ compiled.out.present
       /\ DOMAIN compiled.out.v = {"column", "op"}
       /\ compiled.out.v.column = compiled.row.column
       /\ compiled.out.v.op = compiled.row.op

\* A no-value row that carries a stray value compiled to a clause without it.
C15_Witness ==
    /\ compiled.done
    /\ compiled.row = [column |-> "status", op |-> "is_null", value |-> <<"4", "2">>]
    /\ compiled.out = Some([column |-> "status", op |-> "is_null"])

\* C16: every clause of the descriptor has a non-empty column; a row without a
\* column (absent or empty) yields no clause, whatever its operator and value.
C16_NoColumnNoClause ==
    queryBody.present =>
        /\ \A i \in 1..Len(Clauses) : HasColumn(Clauses[i])
        /\ Len(Clauses) <= Len(filters)
        /\ Len(filters) = 1 /\ ~HasColumn(filters[1]) => Clauses = <<>>

\* A no-value row with the empty column and a row's descriptor without clause.
C16_Witness ==
    /\ queryBody.present
    /\ Len(filters) = 1
    /\ filters[1].column = ""
    /\ filters[1].op = "is_null"
    /\ Clauses = <<>>

\* C17: in every computed descriptor order_by is present exactly when a sort
\* column is set, and is then the column with the current direction; fields is
\* present exactly when the projection is non-empty, and is then the
\* projection in order: an empty projection is omitted, never an empty list.
C17_OptionalKeys ==
    queryBody.present =>
        /\ queryBody.v.order_by.present
             <=> (orderBy.column # Undefined /\ orderBy.column # "")
        /\ queryBody.v.order_by.present
             => queryBody.v.order_by.v = [column |-> orderBy.column,
                                          direction |-> orderBy.direction]
        /\ queryBody.v.fields.present <=> fields # <<>>
        /\ queryBody.v.fields.present => queryBody.v.fields.v = fields

\* A descriptor computed with a projection of two columns, in the order they
\* were added, and without order_by: a direction is chosen, a column is not.
C17_Witness ==
    /\ queryBody.present
    /\ fields = <<"status", "id">>
    /\ queryBody.v.fields = Some(<<"status", "id">>)
    /\ orderBy = [column |-> Undefined, direction |-> "asc"]
    /\ queryBody.v.order_by = None

\* C18: in every state, after any Prev, Next, limit edits and table changes,
\* offset is a non-negative multiple of the current limit.
C18_OffsetMultipleOfLimit == offset >= 0 /\ offset % limit = 0

\* ---- column widths, stated from the grid's props

\* The sampled lengths of column k: its header and its values in the first
\* hundred rows.
SampledLengths(g, k) ==
    {Len(g.columns[k])}
        \cup {Length(Cell(g.rows, i, g.columns[k])) :
                i \in 1..(IF Len(g.rows) < 100 THEN Len(g.rows) ELSE 100)}

Longest(g, k) == CHOOSE m \in SampledLengths(g, k) : \A l \in SampledLengths(g, k) : l <= m

\* C19: every estimated width lies in [140, 420]; a column with header "id"
\* whose sampled values are all shorter than 17.5 characters has width 140; a
\* column whose unclamped estimate (longest * 8 * 0.7) exceeds 420 has width
\* 420; and from one render to the next the width of a column does not
\* decrease when its longest sampled length does not.
C19_WidthClamped ==
    /\ [](\A k \in 1..Len(grid.columns) :
            /\ Len(grid.widths) = Len(grid.columns)
            /\ grid.widths[k] >= 140 /\ grid.widths[k] <= 420
            /\ (/\ grid.columns[k] = "id"
                /\ \A l \in SampledLengths(grid, k) : 2 * l < 35)
                 => grid.widths[k] = 140
            /\ Longest(grid, k) * 56 > 4200 => grid.widths[k] = 420)
    /\ [][\A k \in 1..Len(grid.columns) :
            k \in 1..Len(grid'.columns) /\ Longest(grid', k) >= Longest(grid, k)
                => grid'.widths[k] >= grid.widths[k]]_vars

\* A grid of a hundred and one rows whose "id" column has the maximum width
\* and whose second column, with nothing but its header, lies between the
\* bounds.
C19_Witness ==
    /\ Len(grid.rows) = 101
    /\ Len(grid.columns) = 2
    /\ Longest(grid, 1) = 76
    /\ grid.widths = <<420, 168>>

\* C20: the file of a completed export is named from the table that was
\* selected when the export was started and from the time at which it was
\* started, whatever time streaming took and whatever table was selected
\* meanwhile.
C20_NamedFromStart ==
    \A j \in 1..Len(exports) :
        exports[j].state = "done"
            => /\ exports[j].saved[1].table = exports[j].table
               /\ exports[j].saved[1].millis = exports[j].startedAt

\* The rows of a grid at the indices 0..99.
FirstHundred(g) ==
    SubSeq(g.rows, 1, IF Len(g.rows) < 100 THEN Len(g.rows) ELSE 100)

\* Column k has no value in the first hundred rows: every cell there is null
\* or missing.
NoSampledValue(g, k) ==
    \A i \in 1..Len(FirstHundred(g)) :
        \/ g.columns[k] \notin DOMAIN g.rows[i]
        \/ g.rows[i][g.columns[k]] = UndefinedText

\* The width a header of n characters gets by itself: n * 8 * 0.7 pixels
\* within [140, 420], rounded.
HeaderWidth(n) ==
    IF n * 56 <= 1400 THEN 140
    ELSE IF n * 56 >= 4200 THEN 420
    ELSE (n * 56 + 5) \div 10

\* C21: the widths depend on the rows at the indices 0..99 only: two
\* successive renders with the same columns whose rows agree there give the
\* same widths, whatever the rows beyond hold; and null or missing cells count
\* as length 0, so a column with no other sampled cell has its header's width.
C21_FirstHundredOnly ==
    /\ [](\A k \in 1..Len(grid.columns) :
            NoSampledValue(grid, k)
                => grid.widths[k] = HeaderWidth(Len(grid.columns[k])))
    /\ [][grid'.columns = grid.columns /\ FirstHundred(grid') = FirstHundred(grid)
            => grid'.widths = grid.widths]_vars

\* A grid of 101 rows whose row at index 100 holds an id of 80 characters,
\* while the id column has the width of its one-character sampled ids.
C21_Witness ==
    /\ Len(grid.rows) = 101
    /\ Len(grid.rows[101].id) = 80
    /\ \A i \in 1..100 : Len(grid.rows[i].id) = 1
    /\ grid.widths[1] = 140

\* ---- rows compiled together

\* The clauses of the rows, each row compiled on its own, in row order.
RECURSIVE EachAlone(_)
EachAlone(rows) ==
    IF rows = <<>> THEN <<>>
    ELSE CompileFilters(<<Head(rows)>>) \o EachAlone(Tail(rows))

DroppedAlone(row) == CompileFilters(<<row>>) = <<>>

Without(rows, i) ==
    [j \in 1..(Len(rows) - 1) |-> IF j < i THEN rows[j] ELSE rows[j + 1]]

\* From rows a to rows b a dropped row was removed.
DroppedRowRemoved(a, b) ==
    \E i \in 1..Len(a) : DroppedAlone(a[i]) /\ b = Without(a, i)

\* From rows a to rows b a dropped row was edited into a dropped row.
DroppedRowEdited(a, b) ==
    /\ Len(a) = Len(b)
    /\ \E i \in 1..Len(a) :
         /\ DroppedAlone(a[i]) /\ DroppedAlone(b[i]) /\ a[i] # b[i]
         /\ \A j \in 1..Len(a) : j # i => a[j] = b[j]

\* C22: the descriptor is always computed (a dropped row raises no error) and
\* its filter list is the in-order sequence of the clauses of the rows that
\* compile on their own; a step that inserts, removes or edits a dropped row
\* leaves the filter list as it was.
C22_RowsIndependent ==
    /\ [](queryBody.present /\ queryBody.v.filters = EachAlone(filters))
    /\ [][(\/ DroppedRowRemoved(filters, filters')
           \/ DroppedRowRemoved(filters', filters)
           \/ DroppedRowEdited(filters, filters'))
            => queryBody'.v.filters = queryBody.v.filters]_vars

\* A dropped between row stands between two rows that compile: the filter
\* list holds the clauses of the two, in row order.
C22_Witness ==
    /\ Len(filters) = 3
    /\ filters[1].op = "in" /\ filters[2].op = "between" /\ filters[3].op = "eq"
    /\ HasColumn(filters[3])
    /\ Len(queryBody.v.filters) = 2
    /\ queryBody.v.filters[1].op = "in"
    /\ queryBody.v.filters[2].op = "eq"

\* ---- the end of an export

Ended(j) == j <= Len(exports) /\ exports[j].state \in {"done", "failed"}

\* The export offered one file and reported its count, and raised no failure.
EndedWithFile(j) ==
    /\ exports[j].state = "done"
    /\ Len(exports[j].saved) = 1
    /\ [job |-> j, title |-> "Export complete", lines |-> exports[j].lines] \in toasts
    /\ \A t \in toasts : t.job = j => t.title = "Export complete"

\* The export raised a failure notification, and offered no file and no count.
EndedWithFailure(j) ==
    /\ exports[j].state = "failed"
    /\ exports[j].saved = <<>>
    /\ \E t \in toasts : t.job = j /\ t.title = "Export failed"
    /\ \A t \in toasts : t.job = j => t.title = "Export failed"

\* C23: every started export, on a stream that ends, eventually ends; an
\* ended export has exactly one outcome, the file with the final count or the
\* failure notification, and keeps it; before that nothing is offered or
\* raised for it; and a step of the user (table change, paging, Run Query)
\* leaves the running exports as they are.
C23_ExportEnds ==
    /\ \A j \in JobIds : (j <= Len(exports)) ~> Ended(j)
    /\ [](\A j \in 1..Len(exports) :
            IF Ended(j) THEN EndedWithFile(j) \/ EndedWithFailure(j)
            ELSE exports[j].saved = <<>> /\ \A t \in toasts : t.job # j)
    /\ [][\A j \in 1..Len(exports) : Ended(j) => exports'[j] = exports[j]]_vars
    /\ [][selectedTable' # selectedTable \/ offset' # offset \/ timer' # timer
            => exports' = exports]_vars

\* An export ended with its file after another table had been selected and
\* Run Query pressed.
C23_Witness ==
    /\ Len(exports) = 1
    /\ EndedWithFile(1)
    /\ exports[1].sent # <<>>
    /\ selectedTable # exports[1].table
    /\ timer # NoTimer

\* ---- the Run Query timer

\* A timeout fires in this step.
Fires == timer # <<>> /\ timer[1] = 0 /\ timer' = SubSeq(timer, 2, Len(timer))

\* C24: at most one debounce timeout is pending; the pending timeouts change
\* only by a press, which leaves exactly one timeout with the full delay
\* (whatever was pending is cancelled), by the clock, which takes one tick
\* from the pending one, or by the pending one firing when its delay has
\* run out, which refetches the observed query; a change of the selected
\* table, a deselection included, leaves the pending timeout alone.
C24_SingleTimer ==
    /\ [](Len(timer) <= 1)
    /\ [][timer' # timer =>
            \/ timer' = <<DebounceTicks>>
            \/ /\ Len(timer) = 1 /\ timer[1] > 0
               /\ timer' = <<timer[1] - 1>>
               /\ nextId' = nextId
            \/ /\ Fires
               /\ timer' = <<>>
               /\ queries'[obsKey].fetchStatus = "fetching"]_vars
    /\ [][selectedTable' # selectedTable => timer' = timer]_vars

\* The table has just been deselected (the reset effect has not run yet)
\* while a timeout armed before is due: it is still pending.
C24_Witness ==
    /\ selectedTable = ""
    /\ resetDeps # selectedTable
    /\ timer = <<0>>

\* ---- what a table change leaves alone

\* The reset effect runs in this step: the committed render was for a table
\* other than the one the effect last ran for.
ResetRuns ==
    pc = "effects" /\ resetDeps # selectedTable /\ resetDeps' = selectedTable

\* C25: a change of the selected table, and the reset that follows it, leave
\* the logical operator, the sort column and direction and the limit as they
\* were, while fields, filter rows and offset are reset; the descriptor
\* computed for a new table carries order_by with the sort column that was
\* chosen under the previous table.
C25_SettingsKept ==
    /\ [][selectedTable' # selectedTable \/ ResetRuns
            => logical' = logical /\ orderBy' = orderBy /\ limit' = limit]_vars
    /\ [][ResetRuns => fields' = <<>> /\ filters' = <<>> /\ offset' = 0]_vars
    /\ [][(/\ (selectedTable' # selectedTable \/ ResetRuns)
           /\ selectedTable' # "" /\ selectedTable' # Undefined
           /\ orderBy.column # "" /\ orderBy.column # Undefined)
            => /\ queryBody'.present
               /\ queryBody'.v.order_by =
                    Some([column |-> orderBy.column, direction |-> orderBy.direction])
               /\ queryBody'.v.logical_operator = logical
               /\ queryBody'.v.limit = limit]_vars

\* After "orders" with an ascending sort on "status", OR and limit 30, the
\* table "users" is selected and its reset has run: the settings are the same
\* and the descriptor carries the sort.
C25_Witness ==
    /\ selectedTable = "users"
    /\ resetDeps = "users"
    /\ \E k \in DOMAIN queries : k.table = "orders"
    /\ logical = "OR" /\ limit = 30
    /\ orderBy = [column |-> "status", direction |-> "asc"]
    /\ offset = 0
    /\ queryBody.present
    /\ queryBody.v.order_by = Some([column |-> "status", direction |-> "asc"])

====
